---- MODULE Spec2Model ----
(***************************************************************************)
(* Storyboard indexing and semantic retrieval pipeline.                    *)
(*                                                                         *)
(*   backend/backend/migrate_embeddings.py   the reindexing job            *)
(*   backend_backup_v2/migrate_embedding.py  the column-width migration    *)
(*   backend_backup_v2/test_vector_search.py the similarity query          *)
(*   frontend/.../convert_storyboards.py     the structured converter      *)
(*                                                                         *)
(* Texts are sequences of characters.  A vector of dimension d is the      *)
(* record [dim |-> d, dir |-> <<x, y>>]: its first two components, every   *)
(* other component being zero, so that cosine distance between vectors of  *)
(* one dimension is computed from dir alone.                               *)
(***************************************************************************)
EXTENDS Integers, Sequences, FiniteSets, TLC

\* ------------------------------------------------------------- bounds
MaxRecords == 2
MaxRuns == 2
MaxTopK == 3
MaxFiles == 2

\* ---------------------------------------------------- program constants
\* vector(1536): the width migrate_embedding_column gives the column
SmallDim == 1536
\* text-embedding-3-large: the width of the vectors create_embedding returns
LargeDim == 3072

\* SQL NULL in the embedding column: no vector, no width.
NULL == [dim |-> 0, dir |-> <<>>]

\* ---------------------------------------------------------------- texts
Whitespace == {" ", "\n", "\t", "\r"}

\* Python truthiness of what content.get('moduleName', '') returns:
\* (not text) holds of the empty string only.
IsFalsy(text) == Len(text) = 0

ModuleNames == {<<>>, <<" ">>, <<"A">>, <<"B">>}

\* content is a JSON object; the only key the job reads is moduleName.
Contents == {[k \in {} |-> <<>>]} \cup {[moduleName |-> t] : t \in ModuleNames}

\* dict.get(key, default)
Get(d, key, default) == IF key \in DOMAIN d THEN d[key] ELSE default

\* storyboard_content.get('moduleName', '')
TextToEmbed(content) == Get(content, "moduleName", <<>>)

\* -------------------------------------------------------------- vectors
Vec(d, xy) == [dim |-> d, dir |-> xy]

\* The embedding model is a fixed function of its input text.
Direction(text) ==
    IF Len(text) = 0 THEN <<1, 1>>
    ELSE IF text[1] = "A" THEN <<1, 0>>
    ELSE IF text[1] = "B" THEN <<0, 1>>
    ELSE <<1, 2>>

\* create_embedding: the vector text-embedding-3-large returns for text
create_embedding(text) == Vec(LargeDim, Direction(text))

\* A vector some earlier embedding scheme left in the column.
StaleVec(d) == Vec(d, <<2, 1>>)

\* ---------------------------------------------------------------- store
\* Whether the column, declared vector(d), accepts the value.
ColumnAccepts(d, emb) == emb = NULL \/ emb.dim = d

Perms(S) ==
    {s \in [1..Cardinality(S) -> S] : \A i, j \in 1..Cardinality(S) : s[i] = s[j] => i = j}

VARIABLES
    store,          \* the storyboards table as committed: id -> [content, embedding]
    columnDim,      \* the declared width of the embedding column
    pc,             \* where the reindexing job is
    txn,            \* the table as the job's open transaction sees it
    rows,           \* storyboards_to_update: the fetched (id, content) rows
    idx,            \* position of the loop in rows
    embedLog,       \* every text handed to the embedding service, in order
    skipped,        \* ids the job printed "Skipping storyboard" for
    updated,        \* ids the job printed "Successfully updated" for
    failed,         \* ids whose embedding call raised
    store0,         \* the table when the current run connected
    runs,           \* number of runs started
    prevFinal,      \* <<the table the previous run left>> when it committed, else <<>>
    \* --- test_vector_search.py
    spc,               \* where the query script is
    search_query_text, \* the configured query text
    top_k,             \* the configured number of results
    query_embedding,   \* the vector fetched for the query text
    result,            \* cur.fetchall(): rows [id, similarity]
    outcome,           \* which of the script's endings was printed
    \* --- convert_storyboards.py
    cpc,            \* where process_folder / the conversion is
    listing,        \* os.listdir(input_folder): the files, in listing order
    fpos,           \* position of the loop in listing
    outputs,        \* output folder: base name -> the value dumped to <base>.json
    written,        \* positions whose output was written
    convFailed,     \* positions printed as "Failed to process"
    parts,          \* the model reply of the conversion under study, by parts
    conv            \* what the conversion returned or raised

reindexVars ==
    <<store, columnDim, pc, txn, rows, idx, embedLog, skipped, updated, failed,
      store0, runs, prevFinal>>

searchVars == <<spc, search_query_text, top_k, query_embedding, result, outcome>>

\* what the query script leaves alone of the job's variables (it appends to embedLog)
searchFrame == <<store, columnDim, pc, txn, rows, idx, skipped, updated, failed,
                 store0, runs, prevFinal>>

convertVars == <<cpc, listing, fpos, outputs, written, convFailed, parts, conv>>

vars == <<reindexVars, searchVars, convertVars>>

\* ------------------------------------------------------- reindexing job
\* The UPDATE with its WHERE clause left out: every row takes the value.
UpdateEmbeddingNoWhere(tbl, id, emb) ==
    [i \in DOMAIN tbl |-> [tbl[i] EXCEPT !.embedding = emb]]

\* The UPDATE keyed by the row's position in the fetched list rather than by
\* the id fetched with it.
UpdateEmbeddingByPosition(tbl, id, emb) ==
    [i \in DOMAIN tbl |-> IF i = idx THEN [tbl[i] EXCEPT !.embedding = emb] ELSE tbl[i]]

\* UPDATE storyboards SET embedding = %s WHERE id = %s
UpdateEmbedding(tbl, id, emb) ==
    [i \in DOMAIN tbl |-> IF i = id THEN [tbl[i] EXCEPT !.embedding = emb] ELSE tbl[i]]

Tables(d) ==
    UNION {[1..n -> [content : Contents, embedding : {NULL, StaleVec(d)}]] : n \in 0..MaxRecords}

\* The converter is not running.
ConvertIdle ==
    /\ cpc = "idle"
    /\ listing = <<>>
    /\ fpos = 1
    /\ outputs = <<>>
    /\ written = {}
    /\ convFailed = {}
    /\ parts = <<>>
    /\ conv = <<>>

\* The query script is not running.
SearchIdle ==
    /\ spc = "idle"
    /\ search_query_text = <<>>
    /\ top_k = 1
    /\ query_embedding = NULL
    /\ result = <<>>
    /\ outcome = "none"

InitReindex ==
    /\ SearchIdle
    /\ ConvertIdle
    /\ columnDim \in {SmallDim, LargeDim}
    /\ store \in Tables(columnDim)
    /\ pc = "start"
    /\ txn = store
    /\ rows = <<>>
    /\ idx = 1
    /\ embedLog = <<>>
    /\ skipped = {}
    /\ updated = {}
    /\ failed = {}
    /\ store0 = store
    /\ runs = 1
    /\ prevFinal = <<>>

\* migrate_embedding_column: ALTER COLUMN embedding TYPE vector(1536).  The
\* cast is rejected when a stored vector has another width.
migrate_embedding_column ==
    /\ pc = "start"
    /\ columnDim' =
         IF \A i \in DOMAIN store : ColumnAccepts(SmallDim, store[i].embedding)
         THEN SmallDim ELSE columnDim
    /\ UNCHANGED <<store, pc, txn, rows, idx, embedLog, skipped, updated, failed,
                   store0, runs, prevFinal>>
    /\ UNCHANGED <<searchVars, convertVars>>

\* psycopg.connect, SELECT id, content FROM storyboards, fetchall.  The
\* query has no ORDER BY: the rows come in an order the engine chooses.
Scan ==
    /\ pc = "start"
    /\ \E order \in Perms(DOMAIN store) :
         rows' = [i \in 1..Len(order) |-> <<order[i], store[order[i]].content>>]
    /\ txn' = store
    /\ store0' = store
    /\ idx' = 1
    /\ skipped' = {}
    /\ updated' = {}
    /\ failed' = {}
    /\ pc' = "loop"
    /\ UNCHANGED <<store, columnDim, embedLog, runs, prevFinal>>
    /\ UNCHANGED <<searchVars, convertVars>>

InLoop == pc = "loop" /\ idx <= Len(rows)
storyboard_id == rows[idx][1]
text_to_embed == TextToEmbed(rows[idx][2])

\* The skip written with break in place of continue.
SkipRecordBreak ==
    /\ InLoop
    /\ IsFalsy(text_to_embed)
    /\ skipped' = skipped \cup {storyboard_id}
    /\ idx' = Len(rows) + 1
    /\ UNCHANGED <<store, columnDim, pc, txn, rows, embedLog, updated, failed,
                   store0, runs, prevFinal>>
    /\ UNCHANGED <<searchVars, convertVars>>

\* if not text_to_embed: print, continue
SkipRecord ==
    /\ InLoop
    /\ IsFalsy(text_to_embed)
    /\ skipped' = skipped \cup {storyboard_id}
    /\ idx' = idx + 1
    /\ UNCHANGED <<store, columnDim, pc, txn, rows, embedLog, updated, failed,
                   store0, runs, prevFinal>>
    /\ UNCHANGED <<searchVars, convertVars>>

\* create_embedding raises (network, quota, service error).  Nothing catches
\* it: it leaves the loop and both with blocks, and the connection's exit
\* rolls the transaction back.
EmbedFails ==
    /\ InLoop
    /\ ~IsFalsy(text_to_embed)
    /\ embedLog' = Append(embedLog, text_to_embed)
    /\ failed' = failed \cup {storyboard_id}
    /\ txn' = store
    /\ pc' = "aborted"
    /\ UNCHANGED <<store, columnDim, rows, idx, skipped, updated, store0, runs, prevFinal>>
    /\ UNCHANGED <<searchVars, convertVars>>

\* create_embedding returns, json.dumps, UPDATE ... WHERE id = storyboard_id.
EmbedAndUpdate ==
    /\ InLoop
    /\ ~IsFalsy(text_to_embed)
    /\ embedLog' = Append(embedLog, text_to_embed)
    /\ LET new_embedding == create_embedding(text_to_embed)
       IN IF ColumnAccepts(columnDim, new_embedding)
          THEN /\ txn' = UpdateEmbedding(txn, storyboard_id, new_embedding)
               /\ updated' = updated \cup {storyboard_id}
               /\ idx' = idx + 1
               /\ pc' = pc
          ELSE \* the engine rejects the value: psycopg.Error, uncaught
               /\ txn' = store
               /\ pc' = "aborted"
               /\ UNCHANGED <<updated, idx>>
    /\ UNCHANGED <<store, columnDim, rows, skipped, failed, store0, runs, prevFinal>>
    /\ UNCHANGED <<searchVars, convertVars>>

\* conn.commit() after the loop, then "Migration complete!"
Commit ==
    /\ pc = "loop"
    /\ idx > Len(rows)
    /\ store' = txn
    /\ pc' = "committed"
    /\ UNCHANGED <<columnDim, txn, rows, idx, embedLog, skipped, updated, failed,
                   store0, runs, prevFinal>>
    /\ UNCHANGED <<searchVars, convertVars>>

\* The process is stopped between two records (a signal, a kill): the
\* commit on line 56 is never reached and the open transaction is lost.
Interrupt ==
    /\ pc = "loop"
    /\ idx > 1
    /\ idx <= Len(rows)
    /\ txn' = store
    /\ pc' = "interrupted"
    /\ UNCHANGED <<store, columnDim, rows, idx, embedLog, skipped, updated, failed,
                   store0, runs, prevFinal>>
    /\ UNCHANGED <<searchVars, convertVars>>

\* The script is run again.
Rerun ==
    /\ pc \in {"committed", "aborted", "interrupted"}
    /\ runs < MaxRuns
    /\ runs' = runs + 1
    /\ prevFinal' = IF pc = "committed" THEN <<store>> ELSE <<>>
    /\ pc' = "start"
    /\ rows' = <<>>
    /\ idx' = 1
    /\ embedLog' = <<>>
    /\ UNCHANGED <<store, columnDim, txn, skipped, updated, failed, store0>>
    /\ UNCHANGED <<searchVars, convertVars>>

NextReindex ==
    \/ migrate_embedding_column
    \/ Scan
    \/ SkipRecord
    \/ EmbedFails
    \/ EmbedAndUpdate
    \/ Commit
    \/ Interrupt
    \/ Rerun

SpecReindex == InitReindex /\ [][NextReindex]_vars

\* ----------------------------------------------------- similarity query
\* Ids are assigned in insertion order: the record with the smaller id was
\* inserted earlier.
Dirs == {<<1, 0>>, <<0, 1>>, <<1, 2>>, <<2, 1>>}

SearchTables(d) ==
    UNION {[1..n -> [content : {[moduleName |-> <<"A">>]},
                     embedding : {NULL} \cup {Vec(d, xy) : xy \in Dirs}]] : n \in 0..MaxRecords}

Dot(a, b) == a[1] * b[1] + a[2] * b[2]
NormSq(a) == Dot(a, a)
SgnSq(x) == IF x < 0 THEN -(x * x) ELSE x * x

\* The similarity column, 1 - (embedding <=> q), is increasing in the cosine
\* of the angle between the two vectors.  It is kept as the fraction
\* num / den = sign(cos) * cos^2, which orders as the cosine does; SQL NULL
\* (the operator applied to a NULL embedding) is the fraction 0 / 0.
NullScore == [num |-> 0, den |-> 0]
Similarity(emb, q) ==
    IF emb = NULL THEN NullScore
    ELSE [num |-> SgnSq(Dot(emb.dir, q.dir)), den |-> NormSq(emb.dir) * NormSq(q.dir)]

ScoreLess(s, t) == s.num * t.den < t.num * s.den
ScoreEq(s, t) == s.num * t.den = t.num * s.den

\* ORDER BY embedding <=> q, ascending: smaller distance (greater similarity)
\* first, NULL last.  Row a may stand before row b.
MayPrecede(a, b, q) ==
    LET sa == Similarity(store[a].embedding, q)
        sb == Similarity(store[b].embedding, q)
    IN IF sb = NullScore THEN TRUE
       ELSE IF sa = NullScore THEN FALSE
       ELSE ~ScoreLess(sa, sb)

\* The <=> operator raises on operands of different widths.
WidthMismatch(q) ==
    \E i \in DOMAIN store : store[i].embedding # NULL /\ store[i].embedding.dim # q.dim

Min(a, b) == IF a < b THEN a ELSE b

InitSearch ==
    /\ ConvertIdle
    /\ columnDim \in {SmallDim, LargeDim}
    /\ store \in SearchTables(columnDim)
    /\ pc = "idle"
    /\ txn = store
    /\ rows = <<>>
    /\ idx = 1
    /\ embedLog = <<>>
    /\ skipped = {}
    /\ updated = {}
    /\ failed = {}
    /\ store0 = store
    /\ runs = 1
    /\ prevFinal = <<>>
    /\ spc = "start"
    /\ search_query_text \in ModuleNames
    /\ top_k \in 1..MaxTopK
    /\ query_embedding = NULL
    /\ result = <<>>
    /\ outcome = "none"

\* client.embeddings.create(model="text-embedding-3-large", input=...) returns
\* (the service answers an empty input string with an error, never a vector)
EmbedQuery ==
    /\ spc = "start"
    /\ Len(search_query_text) > 0
    /\ embedLog' = Append(embedLog, search_query_text)
    /\ query_embedding' = create_embedding(search_query_text)
    /\ spc' = "embedded"
    /\ UNCHANGED <<search_query_text, top_k, result, outcome>>
    /\ UNCHANGED <<searchFrame, convertVars>>

\* ... or raises: except Exception prints "An unexpected error occurred"
EmbedQueryFails ==
    /\ spc = "start"
    /\ embedLog' = Append(embedLog, search_query_text)
    /\ outcome' = "unexpected_error"
    /\ spc' = "done"
    /\ UNCHANGED <<search_query_text, top_k, query_embedding, result>>
    /\ UNCHANGED <<searchFrame, convertVars>>

\* cur.execute(sql_query, ...), cur.fetchall().  SELECT id, content,
\* 1 - (embedding <=> q) FROM storyboards ORDER BY embedding <=> q LIMIT k:
\* no WHERE clause, one sort key; rows of equal key come in an order the
\* engine chooses.
ExecuteQuery ==
    /\ spc = "embedded"
    /\ IF WidthMismatch(query_embedding)
       THEN \* psycopg.Error: "An error occurred with the database"
            /\ outcome' = "db_error"
            /\ spc' = "done"
            /\ result' = result
       ELSE /\ \E order \in Perms(DOMAIN store) :
                 /\ \A i, j \in 1..Len(order) :
                      i < j => MayPrecede(order[i], order[j], query_embedding)
                 /\ result' =
                      [i \in 1..Min(top_k, Len(order)) |->
                         [id |-> order[i],
                          similarity |-> Similarity(store[order[i]].embedding, query_embedding)]]
            /\ spc' = "fetched"
            /\ outcome' = outcome
    /\ UNCHANGED <<search_query_text, top_k, query_embedding, embedLog>>
    /\ UNCHANGED <<searchFrame, convertVars>>

\* if not rows: print "No similar storyboards found"; else print each row,
\* the similarity as {row[2]:.4f}, which raises TypeError on None.
PrintResults ==
    /\ spc = "fetched"
    /\ outcome' =
         IF \E i \in 1..Len(result) : result[i].similarity = NullScore
         THEN "unexpected_error"
         ELSE "finished"
    /\ spc' = "done"
    /\ UNCHANGED <<search_query_text, top_k, query_embedding, result, embedLog>>
    /\ UNCHANGED <<searchFrame, convertVars>>

NextSearch ==
    \/ EmbedQuery
    \/ EmbedQueryFails
    \/ ExecuteQuery
    \/ PrintResults

SpecSearch == InitSearch /\ [][NextSearch]_vars

\* ------------------------------------------------- structured converter
\* Python str.strip(chars): the longest prefix and suffix made of chars go.
LeadCount(t, chars) ==
    CHOOSE n \in 0..Len(t) :
        /\ \A i \in 1..n : t[i] \in chars
        /\ n = Len(t) \/ t[n + 1] \notin chars

TrailCount(t, chars) ==
    CHOOSE n \in 0..Len(t) :
        /\ \A i \in (Len(t) - n + 1)..Len(t) : t[i] \in chars
        /\ n = Len(t) \/ t[Len(t) - n] \notin chars

LStrip(t, chars) == SubSeq(t, LeadCount(t, chars) + 1, Len(t))
RStrip(t, chars) == SubSeq(t, 1, Len(t) - TrailCount(t, chars))
Strip(t, chars) == RStrip(LStrip(t, chars), chars)

\* The backtick character (one element of a text, like any other character).
Backtick == "backtick"

\* The fence removal written with lstrip: only the leading side is cleaned.
LStripFence(json_response) == LStrip(json_response, {Backtick, " ", "\n"})

\* json_response.strip(chars), chars being backtick, space and line feed
StripFence(json_response) == Strip(json_response, {Backtick, " ", "\n"})

\* json.loads over the characters replies are made of here: whitespace,
\* digits, braces, brackets, backticks, letters.  With no quote, comma, colon,
\* sign or literal available, a JSON text is a number, the empty object, the
\* empty array or an array of one JSON text, with whitespace around tokens.
\* A parsed value is held as its compact serialisation.
Digits == {"1", "7"}
ParseFailure == [ok |-> FALSE, value |-> <<>>]
Parsed(v) == [ok |-> TRUE, value |-> v]

RECURSIVE ParseValue(_)
ParseValue(t) ==
    LET u == Strip(t, Whitespace)
        n == Len(u)
    IN IF n = 0 THEN ParseFailure
       ELSE IF \A i \in 1..n : u[i] \in Digits THEN Parsed(u)
       ELSE IF n >= 2 /\ u[1] = "{" /\ u[n] = "}"
            THEN IF Len(Strip(SubSeq(u, 2, n - 1), Whitespace)) = 0
                 THEN Parsed(<<"{", "}">>)
                 ELSE ParseFailure
       ELSE IF n >= 2 /\ u[1] = "[" /\ u[n] = "]"
            THEN IF Len(Strip(SubSeq(u, 2, n - 1), Whitespace)) = 0
                 THEN Parsed(<<"[", "]">>)
                 ELSE LET inner == ParseValue(SubSeq(u, 2, n - 1))
                      IN IF inner.ok
                         THEN Parsed(<<"[">> \o inner.value \o <<"]">>)
                         ELSE ParseFailure
       ELSE ParseFailure

json_loads(t) == ParseValue(t)

\* convert_to_json_with_gemini, from the reply on: json.loads; on any
\* exception strip the fence characters and json.loads again, letting that
\* second exception out.  attempts counts the json.loads calls.
convert_to_json_with_gemini(json_response) ==
    LET direct == json_loads(json_response)
    IN IF direct.ok
       THEN [ok |-> TRUE, value |-> direct.value, attempts |-> 1]
       ELSE LET retry == json_loads(StripFence(json_response))
            IN [ok |-> retry.ok, value |-> retry.value, attempts |-> 2]

\* A reply, by parts: text before the opening fence, the fence, a language
\* tag, the line break ending the fence line, the body, the line break
\* before the closing fence, the fence, text after it.
Fence == <<Backtick, Backtick, Backtick>>
JsonTag == <<"j", "s", "o", "n">>
Pads == {<<>>, <<" ">>, <<"\n">>, <<"\t">>, <<"\n", " ">>}
Breaks == {<<"\n">>, <<"\r", "\n">>}
Bodies ==
    { <<"{", "}">>, <<"{", "\n", "}">>, <<"1", "7">>, <<"[", " ", "1", "]">>,
      <<"n", "o">>, <<"{">>, <<"[", "1", "]", "]">> }

ReplyParts ==
    [lead : Pads, open : {<<>>, Fence}, tag : {<<>>, JsonTag}, brk : Breaks,
     body : Bodies, close : {<<>>, Fence}, trail : Pads]

\* The reply as the text it is.  A reply with no opening fence has no fence
\* line: neither tag nor line break.
ReplyText(r) ==
    r.lead
    \o (IF r.open = <<>> THEN <<>> ELSE r.open \o r.tag \o r.brk)
    \o r.body
    \o (IF r.close = <<>> THEN <<>> ELSE r.brk \o r.close)
    \o r.trail

Unset == [ok |-> FALSE, value |-> <<>>, attempts |-> 0]

InitParse ==
    /\ SearchIdle
    /\ columnDim = LargeDim
    /\ store = <<>>
    /\ pc = "idle"
    /\ txn = <<>>
    /\ rows = <<>>
    /\ idx = 1
    /\ embedLog = <<>>
    /\ skipped = {}
    /\ updated = {}
    /\ failed = {}
    /\ store0 = <<>>
    /\ runs = 1
    /\ prevFinal = <<>>
    /\ cpc = "reply"
    /\ listing = <<>>
    /\ fpos = 1
    /\ outputs = <<>>
    /\ written = {}
    /\ convFailed = {}
    /\ parts \in ReplyParts
    /\ conv = Unset

convertFrame == <<reindexVars, searchVars>>

\* json.loads(json_response) returns at once
ParsesDirectly ==
    /\ cpc = "reply"
    /\ conv' = convert_to_json_with_gemini(ReplyText(parts))
    /\ conv'.ok /\ conv'.attempts = 1
    /\ cpc' = "returned"
    /\ UNCHANGED <<listing, fpos, outputs, written, convFailed, parts, convertFrame>>

\* json.loads raises, the stripped text parses
ParsesAfterStrip ==
    /\ cpc = "reply"
    /\ conv' = convert_to_json_with_gemini(ReplyText(parts))
    /\ conv'.ok /\ conv'.attempts = 2
    /\ cpc' = "returned"
    /\ UNCHANGED <<listing, fpos, outputs, written, convFailed, parts, convertFrame>>

\* json.loads raises on the stripped text too
ConversionRaises ==
    /\ cpc = "reply"
    /\ conv' = convert_to_json_with_gemini(ReplyText(parts))
    /\ ~conv'.ok
    /\ cpc' = "raised"
    /\ UNCHANGED <<listing, fpos, outputs, written, convFailed, parts, convertFrame>>

NextParse ==
    \/ ParsesDirectly
    \/ ParsesAfterStrip
    \/ ConversionRaises

SpecParse == InitParse /\ [][NextParse]_vars

\* process_folder.  A directory entry is its base name, its extension and
\* whether its reader (PdfReader, Presentation, open/read as UTF-8) succeeds.
Bases == {"a", "b"}
Exts == {".pdf", ".pptx", ".txt", ".md"}
Files == [base : Bases, ext : Exts, readable : BOOLEAN]

\* the endswith chain of process_folder
Recognised(f) == f.ext \in {".pdf", ".pptx", ".txt"}

\* a directory holds no two entries of one name
Listings ==
    UNION {{l \in [1..n -> Files] :
              \A i, j \in 1..n :
                  (l[i].base = l[j].base /\ l[i].ext = l[j].ext) => i = j}
           : n \in 0..MaxFiles}

\* The replies the generative service may give for a document.
BatchReplies ==
    {ReplyText(r) : r \in {q \in ReplyParts :
        /\ q.lead = <<>> /\ q.trail = <<>> /\ q.brk = <<"\n">>
        /\ q.body \in {<<"{", "}">>, <<"1", "7">>, <<"n", "o">>}
        /\ (q.open = <<>>) = (q.close = <<>>)}}

InitConvert ==
    /\ SearchIdle
    /\ columnDim = LargeDim
    /\ store = <<>>
    /\ pc = "idle"
    /\ txn = <<>>
    /\ rows = <<>>
    /\ idx = 1
    /\ embedLog = <<>>
    /\ skipped = {}
    /\ updated = {}
    /\ failed = {}
    /\ store0 = <<>>
    /\ runs = 1
    /\ prevFinal = <<>>
    /\ cpc = "loop"
    /\ listing \in Listings
    /\ fpos = 1
    /\ outputs = <<>>
    /\ written = {}
    /\ convFailed = {}
    /\ parts = <<>>
    /\ conv = Unset

InFolderLoop == cpc = "loop" /\ fpos <= Len(listing)

\* else: continue
SkipUnrecognised ==
    /\ InFolderLoop
    /\ ~Recognised(listing[fpos])
    /\ fpos' = fpos + 1
    /\ UNCHANGED <<cpc, listing, outputs, written, convFailed, parts, conv, convertFrame>>

\* extract_text_from_pdf / extract_text_from_pptx / f.read() raises.  The
\* three calls stand before the try: the exception leaves process_folder.
ExtractionRaises ==
    /\ InFolderLoop
    /\ Recognised(listing[fpos])
    /\ ~listing[fpos].readable
    /\ cpc' = "crashed"
    /\ UNCHANGED <<listing, fpos, outputs, written, convFailed, parts, conv, convertFrame>>

\* the text is extracted, the conversion returns, json.dump to <base>.json
ConvertAndWrite ==
    /\ InFolderLoop
    /\ Recognised(listing[fpos])
    /\ listing[fpos].readable
    /\ \E reply \in BatchReplies :
         LET json_data == convert_to_json_with_gemini(reply)
             base_name == listing[fpos].base
         IN /\ json_data.ok
            /\ outputs' = [b \in DOMAIN outputs \cup {base_name} |->
                              IF b = base_name THEN json_data.value ELSE outputs[b]]
    /\ written' = written \cup {fpos}
    /\ fpos' = fpos + 1
    /\ UNCHANGED <<cpc, listing, convFailed, parts, conv, convertFrame>>

\* the text is extracted, the service call or the conversion raises:
\* except Exception prints "Failed to process" and the loop goes on
ConvertFails ==
    /\ InFolderLoop
    /\ Recognised(listing[fpos])
    /\ listing[fpos].readable
    /\ \E serviceRaises \in BOOLEAN :
         serviceRaises \/ \E reply \in BatchReplies : ~convert_to_json_with_gemini(reply).ok
    /\ convFailed' = convFailed \cup {fpos}
    /\ fpos' = fpos + 1
    /\ UNCHANGED <<cpc, listing, outputs, written, parts, conv, convertFrame>>

\* the listing is exhausted: process_folder returns
FolderDone ==
    /\ cpc = "loop"
    /\ fpos > Len(listing)
    /\ cpc' = "done"
    /\ UNCHANGED <<listing, fpos, outputs, written, convFailed, parts, conv, convertFrame>>

NextConvert ==
    \/ SkipUnrecognised
    \/ ExtractionRaises
    \/ ConvertAndWrite
    \/ ConvertFails
    \/ FolderDone

SpecConvert == InitConvert /\ [][NextConvert]_vars

\* ========================================================== properties
ScannedIds == {rows[i][1] : i \in 1..Len(rows)}
ScannedText(id) == TextToEmbed(store0[id].content)

\* C1: when one record's embedding call fails during a run, every other
\* scanned record with a non-empty moduleName ends the run with its newly
\* generated embedding persisted in the store.
C1_FailureIsolated ==
    (pc = "aborted" /\ failed # {}) =>
        \A id \in ScannedIds \ failed :
            ~IsFalsy(ScannedText(id)) =>
                store[id].embedding = create_embedding(ScannedText(id))

\* C2: when a run is interrupted between two records, every record already
\* processed keeps its new embedding in the store and every record not yet
\* processed keeps its prior one.
C2_InterruptKeepsProcessed ==
    pc = "interrupted" =>
        /\ \A id \in updated : store[id].embedding = create_embedding(ScannedText(id))
        /\ \A id \in ScannedIds \ updated : store[id].embedding = store0[id].embedding

\* C3: when one recognised file fails, in extraction or in conversion, it
\* gets no output, and every other recognised file of the directory is
\* extracted, converted and written to its <base name>.json.
C3_BatchIsolated ==
    cpc \in {"done", "crashed"} =>
        \A i \in 1..Len(listing) :
            Recognised(listing[i]) =>
                IF ~listing[i].readable \/ i \in convFailed
                THEN i \notin written
                ELSE i \in written /\ listing[i].base \in DOMAIN outputs

Eligible(id) ==
    store[id].embedding # NULL /\ store[id].embedding.dim = query_embedding.dim

\* C4: every returned record has a stored embedding whose width equals the
\* query vector's; when the store holds no such record the search returns
\* an empty sequence and ends without an error.
C4_OnlyEligibleReturned ==
    spc = "done" /\ query_embedding # NULL =>
        /\ \A i \in 1..Len(result) : Eligible(result[i].id)
        /\ (\A id \in DOMAIN store : ~Eligible(id)) =>
               result = <<>> /\ outcome = "finished"

\* C5: the returned rows are in descending order of similarity, and of two
\* rows of equal similarity the one inserted earlier comes first.  (Stated
\* of the rows that have a similarity: rows of NULL embedding are C4's.)
C5_DescendingTiesByInsertion ==
    \A i, j \in 1..Len(result) :
        (i < j /\ result[i].similarity # NullScore /\ result[j].similarity # NullScore) =>
            /\ ~ScoreLess(result[i].similarity, result[j].similarity)
            /\ ScoreEq(result[i].similarity, result[j].similarity) =>
                   result[i].id < result[j].id

IsFencedJson(r) == r.open = Fence /\ r.close = Fence /\ json_loads(r.body).ok
PadOnly(t) == \A i \in 1..Len(t) : t[i] \in {" ", "\n"}
Converted == cpc \in {"returned", "raised"}

\* C6 (as stated): for every reply that is valid JSON wrapped in a
\* triple-backtick fence, with or without a language tag and with whitespace
\* around it, the direct parse fails, the parse is retried once after
\* stripping and the conversion returns the value of the enclosed JSON.
C6_FencedJsonParses ==
    (Converted /\ IsFencedJson(parts)) =>
        /\ conv.ok
        /\ conv.attempts = 2
        /\ conv.value = json_loads(parts.body).value

\* C6 (amended): for every reply that is valid JSON wrapped in a
\* triple-backtick fence whose opening fence carries no language tag and
\* which has only spaces and line feeds outside the fences, the direct parse
\* fails, the parse is retried once after stripping and the conversion
\* returns the value of the enclosed JSON; with a language tag, or with a tab
\* outside the fences, the conversion of the fenced reply fails.  json.loads
\* is called at most twice, and the conversion fails exactly when neither
\* the reply nor the stripped reply parses.
C6_BareFenceParses ==
    Converted =>
        /\ conv.attempts \in {1, 2}
        /\ (cpc = "raised") = ~conv.ok
        /\ ~conv.ok =>
              /\ ~json_loads(ReplyText(parts)).ok
              /\ ~json_loads(Strip(ReplyText(parts), {Backtick, " ", "\n"})).ok
        /\ IsFencedJson(parts) =>
              IF parts.tag = <<>> /\ PadOnly(parts.lead) /\ PadOnly(parts.trail)
              THEN /\ conv.ok
                   /\ conv.attempts = 2
                   /\ conv.value = json_loads(parts.body).value
              ELSE ~conv.ok /\ conv.attempts = 2

C6_Witness ==
    /\ cpc = "returned"
    /\ IsFencedJson(parts)
    /\ parts.tag = <<>>
    /\ parts.lead # <<>>
    /\ parts.body = <<"{", "\n", "}">>
    /\ conv.attempts = 2
    /\ conv.value = <<"{", "}">>

\* Empty, or whitespace only.
IsBlank(text) == \A i \in 1..Len(text) : text[i] \in Whitespace

\* C7: the embedding service is never invoked with text that is empty or
\* whitespace only.
C7_NoBlankTextEmbedded ==
    \A i \in 1..Len(embedLog) : ~IsBlank(embedLog[i])

\* C8: however a run ends, no record is deleted, no id or content changes,
\* and every record that was not successfully embedded (skipped, failed or
\* never reached) holds exactly the embedding it held before the run.
C8_ReindexFrame ==
    /\ DOMAIN store = DOMAIN store0
    /\ \A id \in DOMAIN store0 :
         /\ store[id].content = store0[id].content
         /\ id \in (skipped \cup failed) => store[id].embedding = store0[id].embedding
         /\ id \notin updated => store[id].embedding = store0[id].embedding
         /\ store[id].embedding \in {store0[id].embedding, create_embedding(ScannedText(id))}

C8_Witness ==
    /\ pc = "aborted"
    /\ failed # {}
    /\ updated # {}
    /\ \E id \in updated : store0[id].embedding # create_embedding(ScannedText(id))

\* C9: a run that completes right after a completed run leaves every
\* record's stored embedding as the earlier run left it.
C9_ReindexIdempotent ==
    (pc = "committed" /\ prevFinal # <<>>) => store = prevFinal[1]

C9_Witness ==
    /\ pc = "committed"
    /\ prevFinal # <<>>
    /\ Cardinality(updated) >= 2
    /\ \E i, j \in updated : store[i].embedding # store[j].embedding

====
